---- MODULE Spec2Model ----
(***************************************************************************)
(* joynosleep: a user-session daemon that inhibits the screen saver while  *)
(* a joystick is in use.  The model follows src/joynosleep.c: one sd-event *)
(* loop dispatching the deferred start-up task, the NameOwnerChanged       *)
(* match, the udev monitor, one I/O source per tracked joystick and one    *)
(* one-shot timer.  Every callback runs to completion (single thread), so  *)
(* each callback is one action.  The environment (the bus daemon and the   *)
(* saver behind it, udev, the kernel clock, the devices) has its own       *)
(* actions.                                                                *)
(***************************************************************************)
EXTENDS Integers, Sequences, FiniteSets, TLC

\* ---------------------------------------------------------------- constants

MAX_JOYSTICKS == 16

\* quiet interval in microseconds
g_inhibit_timeout == 600000000

\* linux/input.h event types
EV_KEY == 1
EV_ABS == 3

\* ------------------------------------------------------------------- bounds

\* microseconds that pass in one step of the clock
TickUs == 300000000

\* the cookies the saver may hand out are 1..MaxCookie (never 0)
MaxCookie == 2

\* inputs from outside during one run: changes of the saver name's owner,
\* uevents and reads of a joystick
MaxInputs == 4

\* -------------------------------------------------------------- the devices

\* The input subsystem as udev shows it.  A device has the property
\* ID_INPUT_JOYSTICK (or not, "absent"), a devnode and a parent NAME.
\* A string is kept as a sequence of pieces, the empty string as <<>>.  The
\* parent may have no NAME property at all (named = FALSE).
Devs == {"pad", "padjs", "kbd"}

\* two more joysticks: one whose parent has an empty NAME, one whose parent
\* has none
AllDevs == Devs \cup {"padnn", "padna"}

DevTable ==
    [d \in AllDevs |->
        CASE d = "pad"   -> [joy |-> "1", node |-> <<"/dev/input/", "event", "5">>,
                             named |-> TRUE, pname |-> <<"Pad">>]
          [] d = "padjs" -> [joy |-> "1", node |-> <<"/dev/input/", "js", "0">>,
                             named |-> TRUE, pname |-> <<"Pad">>]
          [] d = "padnn" -> [joy |-> "1", node |-> <<"/dev/input/", "event", "6">>,
                             named |-> TRUE, pname |-> <<>>]
          [] d = "padna" -> [joy |-> "1", node |-> <<"/dev/input/", "event", "7">>,
                             named |-> FALSE, pname |-> <<>>]
          [] OTHER       -> [joy |-> "absent", node |-> <<"/dev/input/", "event", "0">>,
                             named |-> TRUE, pname |-> <<"Keyboard">>]]

VARIABLES
    pc,           \* where the process is: "boot", "probed", "running", "stalled",
                  \* "aborted", "exiting", "exited"
    probe,        \* what saver_is_active returned in start(): -1, 0 or 1
    saverOwns,    \* environment: someone owns org.freedesktop.ScreenSaver
    watching,     \* the NameOwnerChanged match is installed at the bus daemon
    pending,      \* NameOwnerChanged signals queued for on_name_owner_changed
    g_monitor,    \* "null", "stopped" or "running"
    g_cookie,     \* static uint32_t g_cookie
    timerOn,      \* g_timer is SD_EVENT_ONESHOT (TRUE) or SD_EVENT_OFF (FALSE)
    timerLeft,    \* microseconds until g_timer's deadline
    g_joysticks,  \* g_joysticks[0 .. n_joysticks-1], as a sequence
    open_fds,     \* the descriptors of device nodes the process holds open
    exits,        \* the exit sources of the loop that are still to run, in order
    exit_code,    \* what sd_event_loop returns when the loop finishes
    armed,        \* history: the last transition was "saver appeared"
    live,         \* history: cookies obtained and neither released nor dropped
    sincePress,   \* history: microseconds since the last button press, capped
    inputs,       \* history: inputs from outside so far
    last          \* history: what the last step dispatched and which saver call it made

vars == <<pc, probe, saverOwns, watching, pending, g_monitor, g_cookie,
          timerOn, timerLeft, g_joysticks, open_fds, exits, exit_code,
          armed, live, sincePress, inputs, last>>

n_joysticks == Len(g_joysticks)

\* ------------------------------------------------------------ saver client

SAVER == "org.freedesktop.ScreenSaver"

NoCall == [op |-> "none", cookie |-> 0, ok |-> TRUE]

\* what a step that dispatched no joystick, made no saver call and left the
\* set alone leaves in `last`.  dev: the device a uevent was about; added,
\* failed: the joystick_add calls of the step that tracked a device and that
\* did not; removed: the joystick_del calls.
Quiet(act) == [act |-> act, slot |-> 0, ev |-> <<>>, call |-> NoCall,
               dev |-> "none", added |-> 0, failed |-> 0, removed |-> 0]

\* a variant that reports success whatever the call did
saver_inhibit_error_ignored(cookie, ok, c) ==
    [r |-> 0, cookie |-> IF ok THEN c ELSE cookie,
     call |-> [op |-> "Inhibit", cookie |-> IF ok THEN c ELSE 0, ok |-> ok]]

\* saver_inhibit: the cookie is written only when the call and the reply
\* parse succeed.  `ok` is the outcome of the bus call, `c` the cookie the saver
\* returns.
saver_inhibit(cookie, ok, c) ==
    IF ok THEN [r |-> 0, cookie |-> c, call |-> [op |-> "Inhibit", cookie |-> c, ok |-> TRUE]]
          ELSE [r |-> -1, cookie |-> cookie,
                call |-> [op |-> "Inhibit", cookie |-> 0, ok |-> FALSE]]

\* a variant that keeps the cookie after a successful call
saver_uninhibit_cookie_kept(cookie, ok) ==
    IF cookie = 0 THEN [r |-> 0, cookie |-> 0, call |-> NoCall]
    ELSE [r |-> IF ok THEN 0 ELSE -1, cookie |-> cookie,
          call |-> [op |-> "UnInhibit", cookie |-> cookie, ok |-> ok]]

\* saver_uninhibit: nothing to do for cookie 0; the cookie is cleared only
\* when the call succeeds.
saver_uninhibit(cookie, ok) ==
    IF cookie = 0 THEN [r |-> 0, cookie |-> 0, call |-> NoCall]
    ELSE IF ok THEN [r |-> 0, cookie |-> 0,
                     call |-> [op |-> "UnInhibit", cookie |-> cookie, ok |-> TRUE]]
         ELSE [r |-> -1, cookie |-> cookie,
               call |-> [op |-> "UnInhibit", cookie |-> cookie, ok |-> FALSE]]

\* ------------------------------------------------------------ device probe

event_pfx == <<"/dev/input/", "event">>

HasPrefix(s, p) == Len(s) >= Len(p) /\ SubSeq(s, 1, Len(p)) = p

\* joystick_probe: r < 0 on a missing property, 0 for "not a joystick",
\* 1 with the devnode and the display name.
\* The name falls back to the devnode when the parent has no NAME ("r < 0");
\* "!name" and "!name[0]" test the out-parameter and the pointer it holds,
\* both non-null after a successful lookup, so an empty NAME is kept.
joystick_probe(d) ==
    LET t == DevTable[d] IN
    IF t.joy = "absent" THEN [r |-> -2, devname |-> <<>>, name |-> <<>>]
    ELSE IF t.joy # "1" THEN [r |-> 0, devname |-> <<>>, name |-> <<>>]
    ELSE IF ~HasPrefix(t.node, event_pfx) THEN [r |-> 0, devname |-> <<>>, name |-> <<>>]
    ELSE [r |-> 1, devname |-> t.node,
          name |-> IF ~t.named THEN t.node ELSE t.pname]

\* ------------------------------------------------------------ joystick set

\* open() returns the lowest descriptor not in use
LowestFd(fds) ==
    CHOOSE f \in 0..Cardinality(fds) : f \notin fds /\ \A g \in 0..(f - 1) : g \in fds

AddOutcomes == {"ok", "EOPEN", "EADDIO"}

\* assert(n_joysticks < MAX_JOYSTICKS) fails
AddAborts(js) == Len(js) >= MAX_JOYSTICKS

\* a variant that forgets to close the descriptor when sd_event_add_io fails
joystick_add_fd_kept(js, fds, d, devname, name, outcome) ==
    LET fd == LowestFd(fds) IN
    IF outcome = "EOPEN" THEN [js |-> js, fds |-> fds]
    ELSE IF outcome = "EADDIO" THEN [js |-> js, fds |-> fds \cup {fd}]
    ELSE [js |-> Append(js, [dev |-> d, devname |-> devname, name |-> name,
                             fd |-> fd, userdata |-> Len(js) + 1,
                             enabled |-> TRUE, n_events |-> 0]),
          fds |-> fds \cup {fd}]

\* joystick_add past its assertion.  fds are the descriptors held before the
\* call.  The slot g_joysticks[n_joysticks] is filled and n_joysticks
\* incremented only when open() and sd_event_add_io() both succeed; when the
\* latter fails the descriptor just opened is closed again.  userdata is the
\* slot the source's callbacks are given.
joystick_add(js, fds, d, devname, name, outcome) ==
    LET fd == LowestFd(fds) IN
    IF outcome = "EOPEN" THEN [js |-> js, fds |-> fds]
    ELSE IF outcome = "EADDIO" THEN [js |-> js, fds |-> (fds \cup {fd}) \ {fd}]
    ELSE [js |-> Append(js, [dev |-> d, devname |-> devname, name |-> name,
                             fd |-> fd, userdata |-> Len(js) + 1,
                             enabled |-> TRUE, n_events |-> 0]),
          fds |-> fds \cup {fd}]

\* a variant that moves the last record without pointing its source at the
\* new slot
joystick_destroy_userdata_kept(js, i) ==
    LET n == Len(js) - 1 IN
    IF i <= n
    THEN [k \in 1..n |-> IF k = i THEN js[n + 1] ELSE js[k]]
    ELSE SubSeq(js, 1, n)

\* joystick_destroy, run when the source at slot i is freed: the last record
\* moves into the freed slot and its source is pointed at the new slot.
joystick_destroy(js, i) ==
    LET n == Len(js) - 1 IN
    IF i <= n
    THEN [k \in 1..n |-> IF k = i THEN [js[n + 1] EXCEPT !.userdata = i] ELSE js[k]]
    ELSE SubSeq(js, 1, n)

\* joystick_del: sd_event_source_disable_unref drops the only reference to the
\* source of slot i, so the source is freed: its destroy callback runs on the
\* slot its userdata names, and its descriptor is closed (the source owns it).
joystick_del(js, fds, i) ==
    [js |-> joystick_destroy(js, js[i].userdata), fds |-> fds \ {js[i].fd}]

\* a variant that stops after the first joystick_del
joystick_del_all_once(js, fds) ==
    IF Len(js) = 0 THEN [js |-> js, fds |-> fds, n |-> 0]
    ELSE LET d == joystick_del(js, fds, Len(js))
         IN [js |-> d.js, fds |-> d.fds, n |-> 1]

\* joystick_del_all; n counts the joystick_del calls of the loop
RECURSIVE joystick_del_all(_, _)
joystick_del_all(js, fds) ==
    IF Len(js) = 0 THEN [js |-> js, fds |-> fds, n |-> 0]
    ELSE LET d == joystick_del(js, fds, Len(js))
             rest == joystick_del_all(d.js, d.fds)
         IN [rest EXCEPT !.n = @ + 1]

\* a variant of the exit hook that leaves the set as it is
joystick_exit_set_kept(js, fds) == [js |-> js, fds |-> fds, n |-> 0]

\* joystick_exit, the exit hook main() registers
joystick_exit(js, fds) == joystick_del_all(js, fds)

\* the input devices in the order the enumerator walks them
DevList == <<"kbd", "pad", "padjs", "padnn", "padna">>

\* joystick_enumerate from position k of the walk: S are the devices present,
\* out[d] is how joystick_add fares for device d.  crash: the assertion of
\* joystick_add failed.  added and failed count the joystick_add calls by
\* what they returned.
RECURSIVE EnumerateFrom(_, _, _, _, _)
EnumerateFrom(js, fds, k, S, out) ==
    IF k > Len(DevList)
    THEN [js |-> js, fds |-> fds, crash |-> FALSE, added |-> 0, failed |-> 0]
    ELSE LET d == DevList[k]
             p == joystick_probe(d)
         IN IF d \notin S \/ p.r <= 0 THEN EnumerateFrom(js, fds, k + 1, S, out)
            ELSE IF AddAborts(js)
                 THEN [js |-> js, fds |-> fds, crash |-> TRUE, added |-> 0, failed |-> 0]
                 ELSE LET a == joystick_add(js, fds, d, p.devname, p.name, out[d])
                          rest == EnumerateFrom(a.js, a.fds, k + 1, S, out)
                      IN IF out[d] = "ok" THEN [rest EXCEPT !.added = @ + 1]
                                          ELSE [rest EXCEPT !.failed = @ + 1]

joystick_enumerate(js, fds, S, out) == EnumerateFrom(js, fds, 1, S, out)

\* ---------------------------------------------------------- hotplug monitor

\* joystick_monitor_init: g_monitor stays NULL when the monitor cannot be set up
joystick_monitor_init(ok) == IF ok THEN "stopped" ELSE "null"

\* joystick_monitor_start: a monitor that fails to start is dropped
joystick_monitor_start(mon, ok) ==
    IF mon = "null" THEN "null" ELSE IF ok THEN "running" ELSE "null"

\* joystick_monitor_stop
joystick_monitor_stop(mon) == IF mon = "null" THEN "null" ELSE "stopped"

\* a variant that drops the first record of a device on its "remove"
on_device_changed_remove_tracked(js, fds, d, a, outcome) ==
    LET p == joystick_probe(d)
        same == [js |-> js, fds |-> fds, crash |-> FALSE, added |-> 0, failed |-> 0]
        hit == {k \in 1..Len(js) : js[k].dev = d}
    IN IF p.r <= 0 THEN same
       ELSE IF a = "add"
            THEN IF AddAborts(js) THEN [same EXCEPT !.crash = TRUE]
                 ELSE LET r == joystick_add(js, fds, d, p.devname, p.name, outcome)
                      IN [js |-> r.js, fds |-> r.fds, crash |-> FALSE,
                          added |-> IF outcome = "ok" THEN 1 ELSE 0,
                          failed |-> IF outcome = "ok" THEN 0 ELSE 1]
            ELSE IF a = "remove" /\ hit # {}
                 THEN LET k == CHOOSE k \in hit : \A h \in hit : k <= h
                          r == joystick_del(js, fds, k)
                      IN [same EXCEPT !.js = r.js, !.fds = r.fds]
                 ELSE same

\* on_device_changed: only an "add" of a device the probe accepts does anything
on_device_changed(js, fds, d, a, outcome) ==
    LET p == joystick_probe(d)
        same == [js |-> js, fds |-> fds, crash |-> FALSE, added |-> 0, failed |-> 0]
    IN IF p.r <= 0 THEN same
       ELSE IF a = "add"
            THEN IF AddAborts(js) THEN [same EXCEPT !.crash = TRUE]
                 ELSE LET r == joystick_add(js, fds, d, p.devname, p.name, outcome)
                      IN [js |-> r.js, fds |-> r.fds, crash |-> FALSE,
                          added |-> IF outcome = "ok" THEN 1 ELSE 0,
                          failed |-> IF outcome = "ok" THEN 0 ELSE 1]
            ELSE same

\* ---------------------------------------------------------- activity engine

\* a variant that takes every key event for a button press
is_key_event(event) == event.type = EV_KEY

is_button_press(event) == event.type = EV_KEY /\ event.value = 0

\* What read() on a joystick gives: one event record, an error, or a short
\* read, after which errno holds whatever an earlier call left there.
Events == {[type |-> EV_KEY, value |-> 0], [type |-> EV_KEY, value |-> 1],
           [type |-> EV_ABS, value |-> 0]}

ReadOutcomes ==
    [kind : {"event"}, ev : Events, errno : {"0"}]
        \cup [kind : {"error"}, ev : {<<>>}, errno : {"ENODEV", "EIO"}]
        \cup [kind : {"short"}, ev : {<<>>}, errno : {"0", "ENODEV", "EIO"}]

\* a variant that calls Inhibit on every button press
inhibit_always(cookie, ok, c) == saver_inhibit(cookie, ok, c)

\* on_joystick_read, "if (!g_cookie) saver_inhibit(...)": Inhibit is called
\* only when no cookie is held
inhibit_if_idle(cookie, ok, c) ==
    IF cookie = 0 THEN saver_inhibit(cookie, ok, c)
    ELSE [r |-> 0, cookie |-> cookie, call |-> NoCall]

\* a variant that leaves a running timer's deadline alone
timer_left_kept(tOn, tLeft) == IF tOn THEN tLeft ELSE g_inhibit_timeout

\* on_joystick_read, sd_event_source_set_time_relative(g_timer, g_inhibit_timeout):
\* the time left until the timer fires after a button press, whatever was left
timer_left_after_press(tOn, tLeft) == g_inhibit_timeout

\* on_joystick_read for the record at slot j.  rd is what read() gives, ok and c
\* the outcome of the Inhibit call, should it be made.
on_joystick_read(js, fds, j, cookie, tOn, tLeft, rd, ok, c) ==
    LET same == [r |-> 0, js |-> js, fds |-> fds, cookie |-> cookie, timerOn |-> tOn,
                 timerLeft |-> tLeft, call |-> NoCall, removed |-> 0]
    IN IF rd.kind # "event"
       THEN IF rd.errno = "ENODEV"
            THEN LET d == joystick_del(js, fds, j)
                 IN [same EXCEPT !.js = d.js, !.fds = d.fds, !.removed = 1]
            ELSE IF rd.errno = "0" THEN same
            ELSE [same EXCEPT !.r = -1]
       ELSE LET js1 == [js EXCEPT ![j].n_events = @ + 1]
                inh == inhibit_if_idle(cookie, ok, c)
            IN IF ~is_button_press(rd.ev) THEN [same EXCEPT !.js = js1]
               ELSE IF inh.r < 0
                    THEN [same EXCEPT !.r = inh.r, !.js = js1, !.call = inh.call]
                    ELSE [same EXCEPT !.js = js1, !.cookie = inh.cookie,
                                      !.timerOn = TRUE,
                                      !.timerLeft = timer_left_after_press(tOn, tLeft),
                                      !.call = inh.call]

\* sd-event after an I/O callback: a source whose callback returned a negative
\* value is switched off, unless the callback has freed it
after_io_callback(before, res, i) ==
    IF Len(res.js) = Len(before) /\ res.r < 0
    THEN [res.js EXCEPT ![i].enabled = FALSE]
    ELSE res.js

\* on_timer: assert(g_cookie), then saver_uninhibit
on_timer(cookie, ok) ==
    IF cookie = 0 THEN [crash |-> TRUE, cookie |-> cookie, call |-> NoCall]
    ELSE LET u == saver_uninhibit(cookie, ok)
         IN [crash |-> FALSE, cookie |-> u.cookie, call |-> u.call]

\* on_screen_saver_appeared
on_screen_saver_appeared(js, fds, mon, S, out, startOk) ==
    LET e == joystick_enumerate(js, fds, S, out)
    IN [js |-> e.js, fds |-> e.fds, crash |-> e.crash,
        added |-> e.added, failed |-> e.failed,
        monitor |-> IF e.crash THEN mon ELSE joystick_monitor_start(mon, startOk)]

\* a variant that drops the cookie and leaves the timer armed
on_screen_saver_disappeared_timer_kept(js, fds, mon, cookie, tOn) ==
    [cookie |-> 0, timerOn |-> tOn, monitor |-> joystick_monitor_stop(mon),
     set |-> joystick_del_all(js, fds)]

\* on_screen_saver_disappeared: a live cookie is dropped without a call
on_screen_saver_disappeared(js, fds, mon, cookie, tOn) ==
    [cookie |-> 0,
     timerOn |-> IF cookie # 0 THEN FALSE ELSE tOn,
     monitor |-> joystick_monitor_stop(mon),
     set |-> joystick_del_all(js, fds)]

\* ------------------------------------------------------------------- states

Min(a, b) == IF a < b THEN a ELSE b
Max(a, b) == IF a > b THEN a ELSE b

Appeared == [name |-> SAVER, new_owner |-> ":1.42"]
Disappeared == [name |-> SAVER, new_owner |-> ""]
OtherName == [name |-> "org.example.Other", new_owner |-> ":1.7"]

\* what the enumerator may find plugged in: the keyboard alone, or all devices
Presences == {{"kbd"}, Devs}

\* how the joystick_add calls of one enumeration fare, per device; devices the
\* probe rejects are never added, so their entry does not matter
Plans ==
    {f \in [Devs -> AddOutcomes] : \A d \in Devs : joystick_probe(d).r <= 0 => f[d] = "ok"}

Init ==
    /\ pc = "boot"
    /\ probe = 0
    /\ saverOwns \in BOOLEAN
    /\ watching = FALSE
    /\ pending = <<>>
    /\ g_monitor = "null"
    /\ g_cookie = 0
    /\ timerOn = FALSE
    /\ timerLeft = 0
    /\ g_joysticks = <<>>
    /\ open_fds = {}
    /\ exits = <<"joystick_exit">>
    /\ exit_code = 0
    /\ armed = FALSE
    /\ live = {}
    /\ sincePress = g_inhibit_timeout
    /\ inputs = 0
    /\ last = Quiet("none")

\* -------------------------------------------------------------- environment

\* The bus daemon sends NameOwnerChanged only to a connection whose match is
\* installed when the owner changes.
Notify(m) == pending' = IF watching THEN Append(pending, m) ELSE pending

SaverAcquire ==
    /\ pc \in {"probed", "running"}
    /\ ~saverOwns
    /\ inputs < MaxInputs
    /\ inputs' = inputs + 1
    /\ saverOwns' = TRUE
    /\ Notify(Appeared)
    /\ last' = Quiet("none")
    /\ UNCHANGED <<pc, probe, watching, g_monitor, g_cookie, timerOn, timerLeft,
                   g_joysticks, open_fds, exits, exit_code, armed, live, sincePress>>

SaverLose ==
    /\ pc \in {"probed", "running"}
    /\ saverOwns
    /\ inputs < MaxInputs
    /\ inputs' = inputs + 1
    /\ saverOwns' = FALSE
    /\ Notify(Disappeared)
    /\ last' = Quiet("none")
    /\ UNCHANGED <<pc, probe, watching, g_monitor, g_cookie, timerOn, timerLeft,
                   g_joysticks, open_fds, exits, exit_code, armed, live, sincePress>>

\* the name passes from one owner to the next: new_owner is not empty
SaverTransfer ==
    /\ pc = "running"
    /\ saverOwns
    /\ watching
    /\ inputs < MaxInputs
    /\ inputs' = inputs + 1
    /\ Notify(Appeared)
    /\ last' = Quiet("none")
    /\ UNCHANGED <<pc, probe, saverOwns, watching, g_monitor, g_cookie, timerOn,
                   timerLeft, g_joysticks, open_fds, exits, exit_code, armed, live,
                   sincePress>>

\* TickUs microseconds pass on CLOCK_MONOTONIC
Tick ==
    /\ pc = "running"
    /\ timerLeft > 0 \/ sincePress < g_inhibit_timeout
    /\ timerLeft' = Max(timerLeft - TickUs, 0)
    /\ sincePress' = Min(sincePress + TickUs, g_inhibit_timeout)
    /\ last' = Quiet("none")
    /\ UNCHANGED <<pc, probe, saverOwns, watching, pending, g_monitor, g_cookie,
                   timerOn, g_joysticks, open_fds, exits, exit_code, armed, live, inputs>>

\* ------------------------------------------------------------------ startup

\* bus_init up to the reply to NameHasOwner in start(): the bus connection,
\* its attachment to the loop and the timer (created, then switched off).  A
\* failure returns a negative value from the deferred task: sd-event switches
\* the source of a callback that returned an error off and goes on waiting for
\* events ("stalled").  The exit hook bus_fini is added once the connection is
\* there.  A failed probe ends start() at once; bus_init ignores what start()
\* returns.
BusInit(outcome, probeOk) ==
    /\ pc = "boot"
    /\ last' = Quiet("bus_init")
    /\ exits' = IF outcome = "nobus" THEN exits ELSE Append(exits, "bus_fini")
    /\ IF outcome # "ok"
       THEN /\ pc' = "stalled"
            /\ UNCHANGED <<probe, timerOn, timerLeft>>
       ELSE /\ timerOn' = FALSE
            /\ timerLeft' = g_inhibit_timeout
            /\ probe' = IF ~probeOk THEN 0 ELSE IF saverOwns THEN 1 ELSE 0
            /\ pc' = IF probeOk THEN "probed" ELSE "running"
    /\ UNCHANGED <<saverOwns, watching, pending, g_monitor, g_cookie, g_joysticks,
                   open_fds, exit_code, armed, live, sincePress, inputs>>

\* the rest of start(): the hotplug monitor is set up, the saver-appeared
\* transition is made if the probe said so, and only then is the
\* NameOwnerChanged match installed
StartRest(initOk, S, out, startOk, matchOk) ==
    /\ pc = "probed"
    /\ LET mon == joystick_monitor_init(initOk)
           a == on_screen_saver_appeared(g_joysticks, open_fds, mon, S, out, startOk)
       IN IF probe = 1
          THEN /\ g_joysticks' = a.js
               /\ open_fds' = a.fds
               /\ g_monitor' = a.monitor
               /\ armed' = TRUE
               /\ pc' = IF a.crash THEN "aborted" ELSE "running"
               /\ watching' = (~a.crash /\ matchOk)
               /\ last' = [Quiet("start") EXCEPT !.added = a.added, !.failed = a.failed]
          ELSE /\ g_monitor' = mon
               /\ pc' = "running"
               /\ watching' = matchOk
               /\ last' = Quiet("start")
               /\ UNCHANGED <<g_joysticks, open_fds, armed>>
    /\ probe' = 0
    /\ UNCHANGED <<saverOwns, pending, g_cookie, timerOn, timerLeft, exits, exit_code,
                   live, sincePress, inputs>>

\* ---------------------------------------------------------------- callbacks

\* on_name_owner_changed for signal m, the oldest queued one of the saver's
\* name or one of another name
OnNameOwnerChanged(m, S, out, startOk) ==
    /\ pc = "running"
    /\ watching
    /\ IF m.name = SAVER
       THEN pending # <<>> /\ m = Head(pending) /\ pending' = Tail(pending)
       ELSE pending' = pending
    /\ LET
           a == on_screen_saver_appeared(g_joysticks, open_fds, g_monitor, S, out, startOk)
           g == on_screen_saver_disappeared(g_joysticks, open_fds, g_monitor, g_cookie,
                                            timerOn)
       IN IF m.name # SAVER
          THEN /\ last' = Quiet("none")
               /\ UNCHANGED <<pc, g_monitor, g_cookie, timerOn, g_joysticks, open_fds,
                              armed, live>>
          ELSE IF m.new_owner = ""
               THEN /\ g_cookie' = g.cookie
                    /\ timerOn' = g.timerOn
                    /\ g_monitor' = g.monitor
                    /\ g_joysticks' = g.set.js
                    /\ open_fds' = g.set.fds
                    /\ armed' = FALSE
                    /\ live' = {}
                    /\ last' = [Quiet("disappeared") EXCEPT !.removed = g.set.n]
                    /\ UNCHANGED pc
               ELSE /\ g_joysticks' = a.js
                    /\ open_fds' = a.fds
                    /\ g_monitor' = a.monitor
                    /\ armed' = TRUE
                    /\ pc' = IF a.crash THEN "aborted" ELSE "running"
                    /\ last' = [Quiet("appeared") EXCEPT !.added = a.added,
                                                         !.failed = a.failed]
                    /\ UNCHANGED <<g_cookie, timerOn, live>>
    /\ UNCHANGED <<probe, saverOwns, watching, timerLeft, exits, exit_code, sincePress,
                   inputs>>

\* on_device_changed for a uevent of the running monitor
OnDeviceChanged(d, a, outcome) ==
    /\ pc = "running"
    /\ g_monitor = "running"
    /\ inputs < MaxInputs
    /\ inputs' = inputs + 1
    /\ LET res == on_device_changed(g_joysticks, open_fds, d, a, outcome)
       IN /\ g_joysticks' = res.js
          /\ open_fds' = res.fds
          /\ pc' = IF res.crash THEN "aborted" ELSE "running"
          /\ last' = [Quiet(a) EXCEPT !.dev = d, !.added = res.added,
                                      !.failed = res.failed]
    /\ UNCHANGED <<probe, saverOwns, watching, pending, g_monitor, g_cookie, timerOn,
                   timerLeft, exits, exit_code, armed, live, sincePress>>

\* The loop dispatches the enabled I/O source of slot i; its callback gets the
\* source's userdata.  An Inhibit call can succeed only while the saver is there.
OnJoystickRead(i, rd, ok, c) ==
    /\ pc = "running"
    /\ i \in 1..n_joysticks
    /\ g_joysticks[i].enabled
    /\ inputs < MaxInputs
    /\ inputs' = inputs + 1
    /\ ok => saverOwns
    /\ LET j == g_joysticks[i].userdata
           res == on_joystick_read(g_joysticks, open_fds, j, g_cookie, timerOn,
                                   timerLeft, rd, ok, c)
       IN /\ g_joysticks' = after_io_callback(g_joysticks, res, i)
          /\ open_fds' = res.fds
          /\ g_cookie' = res.cookie
          /\ timerOn' = res.timerOn
          /\ timerLeft' = res.timerLeft
          /\ live' = IF res.call.op = "Inhibit" /\ res.call.ok
                     THEN live \cup {res.call.cookie} ELSE live
          /\ last' = [Quiet("read") EXCEPT !.slot = i, !.ev = rd.ev, !.call = res.call,
                                           !.removed = res.removed]
    /\ sincePress' = IF rd.kind = "event" /\ rd.ev.type = EV_KEY /\ rd.ev.value = 0
                     THEN 0 ELSE sincePress
    /\ UNCHANGED <<pc, probe, saverOwns, watching, pending, g_monitor, exits,
                   exit_code, armed>>

\* The one-shot timer has run out: the loop switches it off and calls on_timer.
OnTimer(ok) ==
    /\ pc = "running"
    /\ timerOn
    /\ timerLeft = 0
    /\ ok => saverOwns
    /\ timerOn' = FALSE
    /\ LET res == on_timer(g_cookie, ok)
       IN /\ g_cookie' = res.cookie
          /\ pc' = IF res.crash THEN "aborted" ELSE "running"
          /\ last' = [Quiet("timer") EXCEPT !.call = res.call]
          /\ live' = IF res.call.op = "UnInhibit" /\ res.call.ok
                     THEN live \ {res.call.cookie} ELSE live
    /\ UNCHANGED <<probe, saverOwns, watching, pending, g_monitor, timerLeft,
                   g_joysticks, open_fds, exits, exit_code, armed, sincePress, inputs>>

Next ==
    \/ SaverAcquire
    \/ SaverLose
    \/ SaverTransfer
    \/ Tick
    \/ \E outcome \in {"ok", "nobus", "noattach", "notimer"}, probeOk \in BOOLEAN :
           BusInit(outcome, probeOk)
    \/ \E initOk \in BOOLEAN, S \in Presences, out \in Plans,
          startOk \in BOOLEAN, matchOk \in BOOLEAN :
           StartRest(initOk, S, out, startOk, matchOk)
    \/ \E S \in Presences, out \in Plans, startOk \in BOOLEAN :
           OnNameOwnerChanged(Appeared, S, out, startOk)
    \/ \E m \in {Disappeared, OtherName} :
           OnNameOwnerChanged(m, {}, [d \in Devs |-> "ok"], TRUE)
    \/ \E d \in Devs, a \in {"add", "remove", "change"}, outcome \in AddOutcomes :
           OnDeviceChanged(d, a, outcome)
    \/ \E i \in 1..n_joysticks, rd \in ReadOutcomes, ok \in BOOLEAN, c \in 1..MaxCookie :
           OnJoystickRead(i, rd, ok, c)
    \/ \E ok \in BOOLEAN : OnTimer(ok)

Spec == Init /\ [][Next]_vars

\* The clock runs on, and the loop dispatches a timer that has run out.
FairSpec ==
    /\ Init
    /\ [][Next]_vars
    /\ WF_vars(Tick)
    /\ WF_vars(\E ok \in BOOLEAN : OnTimer(ok))

\* The daemon armed and idle with k records in the set, each put there by a
\* successful joystick_add of the pad.
RECURSIVE Tracked(_)
Tracked(k) ==
    IF k = 0 THEN [js |-> <<>>, fds |-> {}]
    ELSE LET p == joystick_probe("pad")
             t == Tracked(k - 1)
         IN joystick_add(t.js, t.fds, "pad", p.devname, p.name, "ok")

InitFull ==
    /\ pc = "running"
    /\ probe = 0
    /\ saverOwns = TRUE
    /\ watching = TRUE
    /\ pending = <<>>
    /\ g_monitor = "running"
    /\ g_cookie = 0
    /\ timerOn = FALSE
    /\ timerLeft = 0
    /\ \E k \in {MAX_JOYSTICKS - 1, MAX_JOYSTICKS} :
           /\ g_joysticks = Tracked(k).js
           /\ open_fds = Tracked(k).fds
    /\ exits = <<"joystick_exit", "bus_fini">>
    /\ exit_code = 0
    /\ armed = TRUE
    /\ live = {}
    /\ sincePress = g_inhibit_timeout
    /\ inputs = 0
    /\ last = Quiet("none")

\* name changes and uevents, with no joystick input
NextFull ==
    \/ SaverAcquire
    \/ SaverLose
    \/ SaverTransfer
    \/ \E S \in Presences, out \in Plans, startOk \in BOOLEAN :
           OnNameOwnerChanged(Appeared, S, out, startOk)
    \/ \E m \in {Disappeared, OtherName} :
           OnNameOwnerChanged(m, {}, [d \in Devs |-> "ok"], TRUE)
    \/ \E d \in Devs, a \in {"add", "remove", "change"}, outcome \in AddOutcomes :
           OnDeviceChanged(d, a, outcome)

SpecFull == InitFull /\ [][NextFull]_vars

\* ----------------------------------------------------------------- shutdown

\* SIGINT or SIGTERM is dispatched: the signal sources have no handler, so
\* sd-event calls sd_event_exit(e, 0) for them.  The deferred task runs before
\* any signal is looked at.  From here on the loop dispatches exit sources only.
OnSignal ==
    /\ pc \in {"running", "stalled"}
    /\ pc' = "exiting"
    /\ exit_code' = 0
    /\ last' = Quiet("signal")
    /\ UNCHANGED <<probe, saverOwns, watching, pending, g_monitor, g_cookie, timerOn,
                   timerLeft, g_joysticks, open_fds, exits, armed, live, sincePress,
                   inputs>>

\* the exit source main() added runs joystick_exit
JoystickExit ==
    /\ pc = "exiting"
    /\ exits # <<>>
    /\ Head(exits) = "joystick_exit"
    /\ exits' = Tail(exits)
    /\ LET r == joystick_exit(g_joysticks, open_fds)
       IN /\ g_joysticks' = r.js
          /\ open_fds' = r.fds
          /\ last' = [Quiet("joystick_exit") EXCEPT !.removed = r.n]
    /\ UNCHANGED <<pc, probe, saverOwns, watching, pending, g_monitor, g_cookie,
                   timerOn, timerLeft, exit_code, armed, live, sincePress, inputs>>

\* the exit source bus_init added runs bus_fini: the connection is released,
\* and with it the match and what was queued on it
BusFini ==
    /\ pc = "exiting"
    /\ exits # <<>>
    /\ Head(exits) = "bus_fini"
    /\ exits' = Tail(exits)
    /\ watching' = FALSE
    /\ pending' = <<>>
    /\ last' = Quiet("bus_fini")
    /\ UNCHANGED <<pc, probe, saverOwns, g_monitor, g_cookie, timerOn, timerLeft,
                   g_joysticks, open_fds, exit_code, armed, live, sincePress, inputs>>

\* no exit source is left: sd_event_loop returns the exit code and main returns it
LoopExit ==
    /\ pc = "exiting"
    /\ exits = <<>>
    /\ pc' = "exited"
    /\ UNCHANGED <<probe, saverOwns, watching, pending, g_monitor, g_cookie, timerOn,
                   timerLeft, g_joysticks, open_fds, exits, exit_code, armed, live,
                   sincePress, inputs, last>>

\* the daemon with its shutdown
NextExit ==
    \/ Next
    \/ OnSignal
    \/ JoystickExit
    \/ BusFini
    \/ LoopExit

SpecExit == Init /\ [][NextExit]_vars

\* what an exiting loop does next
ExitStep == JoystickExit \/ BusFini \/ LoopExit

\* -------------------------------------------------------------- more devices

\* The daemon armed and idle with nothing tracked, and every device plugged in.
InitProbe ==
    /\ pc = "running"
    /\ probe = 0
    /\ saverOwns = TRUE
    /\ watching = TRUE
    /\ pending = <<>>
    /\ g_monitor = "running"
    /\ g_cookie = 0
    /\ timerOn = FALSE
    /\ timerLeft = 0
    /\ g_joysticks = <<>>
    /\ open_fds = {}
    /\ exits = <<"joystick_exit", "bus_fini">>
    /\ exit_code = 0
    /\ armed = TRUE
    /\ live = {}
    /\ sincePress = g_inhibit_timeout
    /\ inputs = 0
    /\ last = Quiet("none")

\* how the joystick_add calls of one enumeration over all devices fare
AllPlans ==
    {f \in [AllDevs -> AddOutcomes] :
        \A d \in AllDevs : joystick_probe(d).r <= 0 => f[d] = "ok"}

\* owner changes of the saver's name and uevents, over all devices
NextProbe ==
    \/ SaverTransfer
    \/ SaverLose
    \/ \E out \in AllPlans, startOk \in BOOLEAN :
           OnNameOwnerChanged(Appeared, AllDevs, out, startOk)
    \/ OnNameOwnerChanged(Disappeared, {}, [d \in AllDevs |-> "ok"], TRUE)
    \/ \E d \in AllDevs, a \in {"add", "remove", "change"}, outcome \in AddOutcomes :
           OnDeviceChanged(d, a, outcome)

SpecProbe == InitProbe /\ [][NextProbe]_vars

\* ------------------------------------------------------------------- claims

ButtonPress == [type |-> EV_KEY, value |-> 0]

ReadEvent == last.act = "read" /\ last.ev # <<>>

\* C1: Inhibit is called only while no cookie is held, and of the cookies the
\* saver has handed out at most one is live at any time: between two successful
\* Inhibit calls there is a successful UnInhibit or a processed saver-disappeared.
C1_SingleInhibit ==
    [][/\ last'.call.op = "Inhibit" => g_cookie = 0 /\ live = {}
       /\ Cardinality(live') <= 1
       /\ live' = IF g_cookie' = 0 THEN {} ELSE {g_cookie'}]_vars

\* a button press was read while a cookie was held, and no call was made
C1_Witness ==
    /\ ReadEvent
    /\ last.ev = ButtonPress
    /\ last.call = NoCall
    /\ g_cookie # 0

\* C2 as stated: between callbacks the cookie is nonzero exactly when the saver
\* is present and the timer armed, and zero exactly when the timer is off.
C2_CookieIffActive ==
    pc = "running" =>
        /\ (g_cookie # 0) <=> (armed /\ timerOn)
        /\ (g_cookie = 0) <=> ~timerOn

\* C3: processing saver-disappeared makes no UnInhibit call and leaves the
\* cookie 0, the timer off and the set empty, with no cookie live any more; and
\* an UnInhibit call is only ever made for a cookie that is live, so never for
\* one that was dropped this way.
C3_DisappearedDropsCookie ==
    [][/\ last'.act = "disappeared" =>
              /\ last'.call.op = "none"
              /\ g_cookie' = 0
              /\ ~timerOn'
              /\ n_joysticks' = 0
              /\ live' = {}
       /\ last'.call.op = "UnInhibit" => last'.call.cookie \in live]_vars

\* saver-disappeared was processed after a cookie had been obtained and before
\* its timer ran out
C3_Witness ==
    /\ last.act = "disappeared"
    /\ sincePress < g_inhibit_timeout
    /\ timerLeft > 0
    /\ \A k \in 1..n_joysticks : g_joysticks[k].n_events = 0

\* C4: reading an event that is not a key event of value 0 changes only the
\* counter of the record that was read.
C4_NonButtonFrame ==
    [][(last'.act = "read" /\ last'.ev # <<>>
            /\ (last'.ev.type # EV_KEY \/ last'.ev.value # 0))
        => /\ UNCHANGED <<g_cookie, timerOn, timerLeft, pc, armed>>
           /\ last'.call = NoCall
           /\ \E j \in 1..n_joysticks :
                  g_joysticks' = [g_joysticks EXCEPT ![j].n_events = @ + 1]]_vars

\* a key event of value 1 was read while idle
C4_Witness ==
    /\ ReadEvent
    /\ last.ev = [type |-> EV_KEY, value |-> 1]
    /\ g_cookie = 0

\* C5 as stated: after a failed Inhibit nothing is changed and the device's
\* source still delivers events.
C5_FailedInhibitKeepsSource ==
    (last.act = "read" /\ last.call.op = "Inhibit" /\ ~last.call.ok) =>
        /\ g_cookie = 0
        /\ ~timerOn
        /\ last.slot <= n_joysticks
        /\ g_joysticks[last.slot].enabled

\* C6 as stated: after a failed UnInhibit the cookie is kept and the timer is
\* still armed.
C6_FailedUnInhibitKeepsTimer ==
    (last.act = "timer" /\ last.call.op = "UnInhibit" /\ ~last.call.ok) =>
        /\ g_cookie = last.call.cookie
        /\ g_cookie # 0
        /\ timerOn

\* the timer has released cookie c: one successful UnInhibit call carrying c
Released(c) ==
    /\ last.act = "timer"
    /\ last.call = [op |-> "UnInhibit", cookie |-> c, ok |-> TRUE]
    /\ g_cookie = 0
    /\ ~timerOn
    /\ armed
    /\ pc = "running"

\* C7: from the active state with cookie c the timer fires and releases c,
\* unless a button press is read first, the saver goes away or the call fails.
C7_QuietRelease ==
    \A c \in 1..MaxCookie :
        (pc = "running" /\ armed /\ g_cookie = c /\ timerOn)
            ~> \/ Released(c)
               \/ ReadEvent /\ last.ev = ButtonPress
               \/ ~saverOwns
               \/ last.act = "disappeared"
               \/ last.call.op = "UnInhibit" /\ ~last.call.ok

\* the timer has just released a cookie
C7_Witness == \E c \in 1..MaxCookie : Released(c)

C9_ArmedIffOwned ==
    (pc = "running" /\ watching /\ pending = <<>>) => (armed <=> saverOwns)

\* C10 as stated: the set never holds more than MAX_JOYSTICKS records and an
\* add that finds it full is turned down while the daemon keeps running.
C10_OverflowRejected == n_joysticks <= MAX_JOYSTICKS /\ pc # "aborted"

\* the descriptors the records of a set hold
FdsOf(js) == {js[k].fd : k \in 1..Len(js)}

\* C11: every step changes the size by the adds that succeeded minus the
\* removals; each slot holds a registration of its own (its own descriptor,
\* open, and no other descriptor is); and the userdata of every registration
\* is the slot that holds it.
C11_SetConsistent ==
    [][/\ n_joysticks' = n_joysticks + last'.added - last'.removed
       /\ \A k \in 1..n_joysticks' : g_joysticks'[k].userdata = k
       /\ \A i, k \in 1..n_joysticks' : i # k => g_joysticks'[i].fd # g_joysticks'[k].fd
       /\ open_fds' = FdsOf(g_joysticks')]_vars

\* the reader of slot 1 has removed its record while another one was tracked:
\* the record that was last now sits in slot 1
C11_Witness ==
    /\ last.act = "read"
    /\ last.removed = 1
    /\ last.slot = 1
    /\ n_joysticks = 1
    /\ g_joysticks[1].fd = 1
    /\ g_joysticks[1].userdata = 1

\* C12 as stated: a read that does not give one full event removes the record,
\* and every record in the set has its source enabled.
C12_FailedReadRemoves ==
    (last.act = "read" /\ last.ev = <<>>) =>
        /\ last.removed = 1
        /\ \A k \in 1..n_joysticks : g_joysticks[k].enabled

\* C13 as stated: when the deferred start-up task has failed the process has
\* terminated with a negative status.
C13_FatalStartupExits ==
    (last.act = "bus_init" /\ pc \notin {"probed", "running"}) =>
        /\ pc = "exited"
        /\ exit_code < 0

\* C14: once a signal is dispatched only exit hooks run, joystick_exit first
\* and bus_fini after it; joystick_exit empties the set and closes every
\* descriptor; the process ends with status 0, the set empty, and does nothing
\* after that; and an exiting loop ends: it always has a next step, and each
\* step short of the last leaves one exit source fewer to run.
C14_SignalExit ==
    /\ [][/\ (last'.act = "joystick_exit" /\ pc' = "exiting") =>
                 /\ last.act = "signal"
                 /\ n_joysticks' = 0
                 /\ open_fds' = {}
          /\ (last'.act = "bus_fini" /\ pc' = "exiting") => last.act = "joystick_exit"
          /\ pc' = "exited" =>
                 /\ n_joysticks' = 0
                 /\ open_fds' = {}
                 /\ exits' = <<>>
                 /\ exit_code' = 0
          /\ pc = "exiting" =>
                 /\ pc' \in {"exiting", "exited"}
                 /\ last'.act \in {"joystick_exit", "bus_fini"}
                 /\ pc' = "exiting" => Len(exits') < Len(exits)
          /\ pc # "exited"]_vars
    /\ [](pc = "exiting" => ENABLED ExitStep)

\* the process has ended after a signal that came while a cookie was held and
\* the timer armed
C14_Witness ==
    /\ pc = "exited"
    /\ last.act = "bus_fini"
    /\ g_cookie # 0
    /\ timerOn
    /\ timerLeft > 0

\* C15 as stated: the name of a tracked device is the parent's NAME when that
\* is there and not empty, and the devnode otherwise.
C15_DisplayName ==
    \A k \in 1..n_joysticks :
        LET t == DevTable[g_joysticks[k].dev]
        IN g_joysticks[k].name = IF t.named /\ t.pname # <<>> THEN t.pname ELSE t.node

\* the devices the probe accepts
Accepted == {d \in AllDevs : joystick_probe(d).r > 0}

\* C16: a step in which a joystick_add failed leaves the records that were
\* there as they were, adds only the devices whose joystick_add succeeded,
\* holds no descriptor but those of the records, leaves cookie and timer alone
\* and the daemon running; an enumeration goes on to the devices after the
\* failure.
C16_FailedAddNoTrace ==
    [][last'.failed > 0 =>
          /\ pc' = "running"
          /\ n_joysticks' = n_joysticks + last'.added
          /\ SubSeq(g_joysticks', 1, n_joysticks) = g_joysticks
          /\ open_fds' = FdsOf(g_joysticks')
          /\ UNCHANGED <<g_cookie, timerOn, timerLeft>>
          /\ last'.act = "appeared" =>
                 last'.added + last'.failed = Cardinality(Accepted)]_vars

\* an enumeration whose first joystick_add failed has tracked the two devices
\* after it
C16_Witness ==
    /\ last.act = "appeared"
    /\ last.failed = 1
    /\ last.added = 2
    /\ n_joysticks = 2
    /\ g_joysticks[1].dev = "padnn"
    /\ g_joysticks[2].dev = "padna"

\* C17: a "remove" uevent changes nothing, and the set shrinks only in a
\* reader, which removes the record it was dispatched for, in the
\* saver-disappeared handler and in the exit hook.
C17_RemoveIsNoOp ==
    [][/\ (last'.act = "remove" /\ pc = "running") =>
              UNCHANGED <<g_joysticks, open_fds, g_cookie, timerOn, timerLeft, pc>>
       /\ n_joysticks' < n_joysticks =>
              /\ last'.act \in {"read", "disappeared", "joystick_exit"}
              /\ last'.act = "read" =>
                     open_fds' = open_fds \ {g_joysticks[last'.slot].fd}]_vars

\* a "remove" uevent for the tracked device was handled while a cookie was held
C17_Witness ==
    /\ last.act = "remove"
    /\ \E k \in 1..n_joysticks : g_joysticks[k].dev = last.dev
    /\ g_cookie # 0
    /\ timerOn

\* C18 as stated: no two records of the set are for the same devnode.
C18_OneRecordPerNode ==
    \A i, k \in 1..n_joysticks : i # k => g_joysticks[i].devname # g_joysticks[k].devname

\* C19: the timer is armed only while a cookie is held, so on_timer never
\* finds the cookie 0.
C19_TimerImpliesCookie ==
    /\ timerOn => g_cookie # 0
    /\ last.act = "timer" => (pc = "running" /\ last.call.op = "UnInhibit")

\* on_timer has run, its UnInhibit call failed and the cookie is still held
C19_Witness ==
    /\ last.act = "timer"
    /\ ~last.call.ok
    /\ g_cookie # 0
    /\ ~timerOn

\* C20: the drain, in the saver-disappeared handler and in the exit hook,
\* ends with the set empty and every descriptor closed after as many
\* joystick_del calls as there were records.
C20_DrainEmpties ==
    [][(last'.act \in {"disappeared", "joystick_exit"} /\ pc' # "exited") =>
          /\ n_joysticks' = 0
          /\ open_fds' = {}
          /\ last'.removed = n_joysticks]_vars

\* the saver-disappeared handler has drained a set of two records
C20_Witness ==
    /\ last.act = "disappeared"
    /\ last.removed = 2
    /\ n_joysticks = 0

====
